---- MODULE Spec2Model ----
(***************************************************************************)
(* State-machine model of the slide viewer in src/components/Carousel.tsx. *)
(*                                                                         *)
(* Every handler of the component is one action.  React runs each handler  *)
(* to completion and, for the discrete events used here (keydown, click,   *)
(* touchend, pointerup), re-renders and flushes the effects whose          *)
(* dependencies changed before the next event is delivered; an action      *)
(* therefore contains the handler, the state update it requests and the    *)
(* effects keyed on [page] that the update triggers.                       *)
(*                                                                         *)
(* JavaScript numbers are represented as integer multiples of 1/4:         *)
(* Fx(n) is the number n, Mul and Div are product and quotient.  The       *)
(* inputs are chosen so that every quotient computed is exact.             *)
(***************************************************************************)
EXTENDS Integers, Sequences, FiniteSets, TLC

VARIABLES
    page,             \* useState [[page, direction]]
    direction,
    preloadRequests,  \* indices whose image the last run of the preload effect requested
    showPageCounter,  \* useState(true)
    pageCounterTimers, \* pending setTimeout(() => setShowPageCounter(false), 1500): due times
    counterShownAt,   \* history: the time of the last run of the page-counter effect
    edgeBounceX,      \* useMotionValue(0), target of the edge-bounce channel
    bounceTimers,     \* pending setTimeout(() => edgeBounceX.set(0), 50): due times, FIFO
    zoomScale,        \* useMotionValue(1)
    zoomX,            \* useMotionValue(0)
    zoomY,            \* useMotionValue(0)
    isZoomed,         \* useState(false)
    isZoomedRef,      \* useRef(false)
    panOffsetRef,     \* useRef({x: 0, y: 0})
    zoomPage,         \* history: the page that was current when the zoom state was last written
    touchStartRef,    \* useRef(null): <<>> or <<[x, y, time]>>
    lastTapRef,       \* useRef(null): <<>> or <<[x, y, time]>>
    pinchOriginRef,   \* useRef(null): <<>> or <<[x, y]>>
    pinchMemo,        \* memo of the live pinch gesture: <<>> (undefined) or <<d0>>
    pinching,         \* a usePinch gesture is live (between first and !active)
    panning,          \* a useDrag gesture is live (between first and last)
    swiping,          \* a drag of the slide image is live (drag="x")
    now,              \* Date.now()
    ev,               \* history: the handler that ran last and its input, for some handlers
    lastTapNav        \* history: direction of the paginate call made by the tap held in lastTapRef

vars == <<page, direction, preloadRequests, showPageCounter, pageCounterTimers,
          counterShownAt, edgeBounceX, bounceTimers, zoomScale, zoomX, zoomY,
          isZoomed, isZoomedRef, panOffsetRef, zoomPage, touchStartRef, lastTapRef,
          pinchOriginRef, pinchMemo, pinching, panning, swiping, now, ev, lastTapNav>>

zoomVars == <<zoomScale, zoomX, zoomY, isZoomed, isZoomedRef, panOffsetRef, zoomPage>>
pageVars == <<page, direction, preloadRequests, showPageCounter, pageCounterTimers,
              counterShownAt>>
bounceVars == <<edgeBounceX, bounceTimers>>
tapVars == <<touchStartRef, lastTapRef, lastTapNav>>
pinchVars == <<pinchOriginRef, pinchMemo, pinching>>

----------------------------------------------------------------------------
(* Numbers *)

Fx(n) == 4 * n
Mul(a, b) == (a * b) \div 4
Div(a, b) == (4 * a) \div b
Abs(a) == IF a < 0 THEN 0 - a ELSE a
Min(a, b) == IF a < b THEN a ELSE b
Max(a, b) == IF a > b THEN a ELSE b

Null == <<>>
Some(v) == <<v>>
Val(o) == o[1]

----------------------------------------------------------------------------
(* Program constants *)

IMAGES_length == 12
SwipeDirectionRIGHT == 1
SwipeDirectionLEFT == 0 - 1
swipeConfidenceThreshold == 10000
NUDGE_PX == 15
BOUNCE_RESET_MS == 50
PAGE_COUNTER_MS == 1500
TAP_THRESHOLD_MS == 200
TAP_THRESHOLD_PX == 10
EDGE_ZONE_PERCENT == 20
DOUBLE_TAP_MS == 300
DOUBLE_TAP_PX == 30
DOUBLE_TAP_SCALE == 2

\* containerRef.current.getBoundingClientRect(), in pixels
rect == [left |-> 20, top |-> 40, width |-> 300, height |-> 500]

----------------------------------------------------------------------------
(* Bounds of the model and the inputs the environment draws from *)

MaxTime == 200
MaxGestureTime == 100
MaxTimers == 1
MaxTapTime == 300
MaxBurstTimers == 3
MaxBurstTime == 100
MaxCounterTime == 3000

TickSteps == {100}
BurstTickSteps == {25}
CounterTickSteps == {500}
Keys == {"ArrowRight", "ArrowLeft", "Enter"}
\* client coordinates of touches; in container coordinates (50,50) lies in the left
\* edge zone and (270,250) in the right edge zone
TouchPoints == {<<70, 90>>, <<290, 290>>}
GestureTouchPoints == {<<70, 90>>}
PinchStartDistances == {100}
PinchDistances == {25, 150}
PinchOrigins == {<<70, 90>>}
PanMovements == {<<0 - 400, 0 - 600>>}
\* <<offset.x, velocity.x>> at the release of a drag of the slide
SwipeReleases == {<<0 - 150, 0 - 80>>, <<0 - 150, 80>>, <<150, 80>>, <<100, 100>>}

GestureSwipeReleases == {<<0 - 150, 0 - 80>>}
\* in container coordinates (60,50) and (230,450): outside the edge zones
ZoomTouchPoints == {<<80, 90>>, <<250, 490>>}
ZoomPinchStartDistances == {50, 100}
ZoomPinchDistances == {25, 150, 400}
ZoomPinchOrigins == {<<70, 90>>, <<170, 290>>}
ZoomPanMovements == {<<100, 0>>, <<0 - 400, 0 - 600>>}
\* in container coordinates x = 50 (left zone), 60 and 240 (the zone borders, 0.20 and
\* 0.80 of the width) and 270 (right zone)
TapPoints == {<<70, 90>>, <<80, 90>>, <<260, 290>>, <<290, 290>>}

Pt(p) == [x |-> Fx(p[1]), y |-> Fx(p[2])]
Origin == [x |-> 0, y |-> 0]
Ev(op, a, b) == [op |-> op, a |-> a, b |-> b]
Other == Ev("other", 0, 0)
\* 1 when the zoom target is not the identity or a zoom session is on
ZoomedNow == IF zoomScale # Fx(1) \/ zoomX # 0 \/ zoomY # 0 \/ isZoomedRef THEN 1 ELSE 0

----------------------------------------------------------------------------
(* Initial state: the values given to useState, useRef and useMotionValue *)

\* mutant of PreloadRequests: the image two ahead is requested under the test of the next one
PreloadRequestsTwoAheadUnchecked(imageIndex) ==
    (IF imageIndex < IMAGES_length - 1 THEN {imageIndex + 1} ELSE {})
        \cup (IF imageIndex > 0 THEN {imageIndex - 1} ELSE {})
        \cup (IF imageIndex < IMAGES_length - 1 THEN {imageIndex + 2} ELSE {})

\* useEffect(..., [imageIndex]): preload adjacent images; the indices passed to preloadImage
PreloadRequests(imageIndex) ==
    (IF imageIndex < IMAGES_length - 1 THEN {imageIndex + 1} ELSE {})
        \cup (IF imageIndex > 0 THEN {imageIndex - 1} ELSE {})
        \cup (IF imageIndex < IMAGES_length - 2 THEN {imageIndex + 2} ELSE {})

Init ==
    /\ page = 0
    /\ direction = 0
    /\ preloadRequests = PreloadRequests(0)
    /\ showPageCounter = TRUE
    /\ pageCounterTimers = {PAGE_COUNTER_MS}
    /\ counterShownAt = 0
    /\ edgeBounceX = 0
    /\ bounceTimers = <<>>
    /\ zoomScale = Fx(1)
    /\ zoomX = 0
    /\ zoomY = 0
    /\ isZoomed = FALSE
    /\ isZoomedRef = FALSE
    /\ panOffsetRef = Origin
    /\ zoomPage = 0
    /\ touchStartRef = Null
    /\ lastTapRef = Null
    /\ pinchOriginRef = Null
    /\ pinchMemo = Null
    /\ pinching = FALSE
    /\ panning = FALSE
    /\ swiping = FALSE
    /\ now = 0
    /\ ev = Other
    /\ lastTapNav = 0

----------------------------------------------------------------------------
(* Page navigation *)

\* mutant of ResetZoomEffect: the pan anchor survives the page change
ResetZoomKeepsPanAnchor ==
    /\ zoomScale' = Fx(1)
    /\ zoomX' = 0
    /\ zoomY' = 0
    /\ isZoomedRef' = FALSE
    /\ isZoomed' = FALSE
    /\ UNCHANGED panOffsetRef
    /\ zoomPage' = page'

\* useEffect(..., [page, zoomScale, zoomX, zoomY]): reset zoom when page changes
ResetZoomEffect ==
    /\ zoomScale' = Fx(1)
    /\ zoomX' = 0
    /\ zoomY' = 0
    /\ isZoomedRef' = FALSE
    /\ isZoomed' = FALSE
    /\ panOffsetRef' = Origin
    /\ zoomPage' = page'

\* mutant of PageCounterEffect: the pending hide timer is not cleared
PageCounterEffectWithoutClear ==
    /\ showPageCounter' = TRUE
    /\ pageCounterTimers' = pageCounterTimers \cup {now + PAGE_COUNTER_MS}
    /\ counterShownAt' = now

\* useEffect(..., [page]): show the page counter, clear the timer held in
\* pageCounterTimeoutRef and start the timer that hides the counter
PageCounterEffect ==
    /\ showPageCounter' = TRUE
    /\ pageCounterTimers' = {now + PAGE_COUNTER_MS}
    /\ counterShownAt' = now

\* mutant of NudgeAmount: the nudge follows the attempted direction
NudgeAlong(dir) == IF dir > 0 THEN Fx(NUDGE_PX) ELSE 0 - Fx(NUDGE_PX)

NudgeAmount(dir) == IF dir > 0 THEN 0 - Fx(NUDGE_PX) ELSE Fx(NUDGE_PX)

\* triggerEdgeBounce, taken while fewer than cap resets are pending
triggerEdgeBounceWithin(dir, cap) ==
    /\ Len(bounceTimers) < cap
    /\ edgeBounceX' = NudgeAmount(dir)
    /\ bounceTimers' = Append(bounceTimers, now + BOUNCE_RESET_MS)

triggerEdgeBounce(dir) == triggerEdgeBounceWithin(dir, MaxTimers)

\* mutant of InRange: the upper bound is off by one
InRangeInclusive(newPage) == newPage >= 0 /\ newPage <= IMAGES_length

InRange(newPage) == newPage >= 0 /\ newPage < IMAGES_length

\* mutant of paginate: an out-of-range move is dropped without feedback
paginateSilent(newDirection) ==
    LET newPage == page + newDirection IN
    IF InRange(newPage)
    THEN /\ page' = newPage
         /\ direction' = newDirection
         /\ preloadRequests' = PreloadRequests(newPage)
         /\ PageCounterEffect
         /\ ResetZoomEffect
         /\ UNCHANGED bounceVars
    ELSE UNCHANGED <<pageVars, zoomVars, bounceVars>>

\* mutant of paginate: the page is committed and the zoom reset is left for later
paginateWithoutReset(newDirection) ==
    LET newPage == page + newDirection IN
    IF InRange(newPage)
    THEN /\ page' = newPage
         /\ direction' = newDirection
         /\ preloadRequests' = PreloadRequests(newPage)
         /\ PageCounterEffect
         /\ UNCHANGED <<zoomVars, bounceVars>>
    ELSE /\ triggerEdgeBounce(newDirection)
         /\ UNCHANGED <<pageVars, zoomVars>>

\* paginate, its rejections taken while fewer than cap resets are pending
paginateWithin(newDirection, cap) ==
    LET newPage == page + newDirection IN
    IF InRange(newPage)
    THEN /\ page' = newPage
         /\ direction' = newDirection
         /\ preloadRequests' = PreloadRequests(newPage)
         /\ PageCounterEffect
         /\ ResetZoomEffect
         /\ UNCHANGED bounceVars
    ELSE /\ triggerEdgeBounceWithin(newDirection, cap)
         /\ UNCHANGED <<pageVars, zoomVars>>

paginate(newDirection) == paginateWithin(newDirection, MaxTimers)

NoPaginate == UNCHANGED <<pageVars, zoomVars, bounceVars>>

\* mutant of BounceTimerFire: the reset does not wait for its delay
BounceTimerFireAtOnce ==
    /\ bounceTimers # <<>>
    /\ edgeBounceX' = 0
    /\ bounceTimers' = Tail(bounceTimers)
    /\ ev' = Other
    /\ UNCHANGED <<pageVars, zoomVars, tapVars, pinchVars, panning, swiping, now>>

\* setTimeout(() => edgeBounceX.set(0), 50)
BounceTimerFire ==
    /\ bounceTimers # <<>>
    /\ Head(bounceTimers) <= now
    /\ edgeBounceX' = 0
    /\ bounceTimers' = Tail(bounceTimers)
    /\ ev' = Other
    /\ UNCHANGED <<pageVars, zoomVars, tapVars, pinchVars, panning, swiping, now>>

\* setTimeout(() => setShowPageCounter(false), 1500)
PageCounterTimerFire ==
    /\ \E due \in pageCounterTimers :
          /\ due <= now
          /\ pageCounterTimers' = pageCounterTimers \ {due}
    /\ showPageCounter' = FALSE
    /\ ev' = Other
    /\ UNCHANGED <<page, direction, preloadRequests, counterShownAt, bounceVars, zoomVars,
                   tapVars, pinchVars, panning, swiping, now>>

handleKeyDown(key) ==
    /\ IF key = "ArrowRight" THEN paginate(SwipeDirectionRIGHT)
       ELSE IF key = "ArrowLeft" THEN paginate(SwipeDirectionLEFT)
       ELSE NoPaginate
    /\ ev' = IF key = "ArrowRight" THEN Ev("keyDown", SwipeDirectionRIGHT, ZoomedNow)
             ELSE IF key = "ArrowLeft" THEN Ev("keyDown", SwipeDirectionLEFT, ZoomedNow)
             ELSE Other
    /\ UNCHANGED <<tapVars, pinchVars, panning, swiping, now>>

\* handleKeyDown in a burst of key presses: up to MaxBurstTimers resets may be pending
handleKeyDownBurst(key) ==
    /\ IF key = "ArrowRight" THEN paginateWithin(SwipeDirectionRIGHT, MaxBurstTimers)
       ELSE IF key = "ArrowLeft" THEN paginateWithin(SwipeDirectionLEFT, MaxBurstTimers)
       ELSE NoPaginate
    /\ ev' = IF key = "ArrowRight" THEN Ev("keyDown", SwipeDirectionRIGHT, ZoomedNow)
             ELSE IF key = "ArrowLeft" THEN Ev("keyDown", SwipeDirectionLEFT, ZoomedNow)
             ELSE Other
    /\ UNCHANGED <<tapVars, pinchVars, panning, swiping, now>>

\* the previous button is rendered only when page > 0
ClickPrev ==
    /\ page > 0
    /\ paginate(SwipeDirectionLEFT)
    /\ ev' = Other
    /\ UNCHANGED <<tapVars, pinchVars, panning, swiping, now>>

\* the next button is rendered only when page < IMAGES.length - 1
ClickNext ==
    /\ page < IMAGES_length - 1
    /\ paginate(SwipeDirectionRIGHT)
    /\ ev' = Other
    /\ UNCHANGED <<tapVars, pinchVars, panning, swiping, now>>

Tick(dt, limit) ==
    /\ now + dt <= limit
    /\ now' = now + dt
    /\ ev' = Other
    /\ UNCHANGED <<pageVars, bounceVars, zoomVars, tapVars, pinchVars, panning, swiping>>

----------------------------------------------------------------------------
(* Taps and double-tap zoom *)

centerX == Div(Fx(rect.width), Fx(2))
centerY == Div(Fx(rect.height), Fx(2))

\* client coordinates to container coordinates
LocalX(clientX) == clientX - Fx(rect.left)
LocalY(clientY) == clientY - Fx(rect.top)

\* the "zoom anchored at a point" formula: (center - origin) * (scale - 1)
AnchorOffset(center, origin, scale) == Mul(center - origin, scale - Fx(1))

handleTouchStart(pt) ==
    /\ touchStartRef' = Some([x |-> Pt(pt).x, y |-> Pt(pt).y, time |-> now])
    /\ ev' = Other
    /\ UNCHANGED <<pageVars, bounceVars, zoomVars, lastTapRef, lastTapNav,
                   pinchVars, panning, swiping, now>>

\* mutant of handleDoubleTapZoom: zooming out keeps the pan anchor
handleDoubleTapZoomKeepsAnchor(tapX, tapY) ==
    IF isZoomedRef
    THEN /\ zoomScale' = Fx(1)
         /\ zoomX' = 0
         /\ zoomY' = 0
         /\ isZoomedRef' = FALSE
         /\ isZoomed' = FALSE
         /\ UNCHANGED panOffsetRef
         /\ zoomPage' = page
    ELSE LET scale == Fx(DOUBLE_TAP_SCALE)
             offsetX == AnchorOffset(centerX, tapX, scale)
             offsetY == AnchorOffset(centerY, tapY, scale)
         IN /\ zoomScale' = scale
            /\ zoomX' = offsetX
            /\ zoomY' = offsetY
            /\ isZoomedRef' = TRUE
            /\ isZoomed' = TRUE
            /\ panOffsetRef' = [x |-> offsetX, y |-> offsetY]
            /\ zoomPage' = page

handleDoubleTapZoom(tapX, tapY) ==
    IF isZoomedRef
    THEN /\ zoomScale' = Fx(1)
         /\ zoomX' = 0
         /\ zoomY' = 0
         /\ isZoomedRef' = FALSE
         /\ isZoomed' = FALSE
         /\ panOffsetRef' = Origin
         /\ zoomPage' = page
    ELSE LET scale == Fx(DOUBLE_TAP_SCALE)
             offsetX == AnchorOffset(centerX, tapX, scale)
             offsetY == AnchorOffset(centerY, tapY, scale)
         IN /\ zoomScale' = scale
            /\ zoomX' = offsetX
            /\ zoomY' = offsetY
            /\ isZoomedRef' = TRUE
            /\ isZoomed' = TRUE
            /\ panOffsetRef' = [x |-> offsetX, y |-> offsetY]
            /\ zoomPage' = page

isTap(start, endPt) ==
    /\ now - start.time < TAP_THRESHOLD_MS
    /\ Abs(endPt.x - start.x) < Fx(TAP_THRESHOLD_PX)
    /\ Abs(endPt.y - start.y) < Fx(TAP_THRESHOLD_PX)

\* Math.sqrt(dx^2 + dy^2) < DOUBLE_TAP_PX, compared on the squares
isDoubleTap(tapX, tapY) ==
    /\ lastTapRef # Null
    /\ now - Val(lastTapRef).time < DOUBLE_TAP_MS
    /\ Mul(tapX - Val(lastTapRef).x, tapX - Val(lastTapRef).x)
         + Mul(tapY - Val(lastTapRef).y, tapY - Val(lastTapRef).y)
           < Mul(Fx(DOUBLE_TAP_PX), Fx(DOUBLE_TAP_PX))

\* mutant of InLeftZone: the border of the zone belongs to it
InLeftZoneInclusive(tapX) == tapX * 100 <= EDGE_ZONE_PERCENT * Fx(rect.width)

\* relativeX = tapX / containerWidth against EDGE_ZONE_PERCENT, cross-multiplied
InLeftZone(tapX) == tapX * 100 < EDGE_ZONE_PERCENT * Fx(rect.width)
InRightZone(tapX) == tapX * 100 > (100 - EDGE_ZONE_PERCENT) * Fx(rect.width)

\* mutant of TapDirection: the edge zones stay active in a zoom session
TapDirectionUngated(tapX) ==
    IF InLeftZone(tapX) THEN SwipeDirectionLEFT
    ELSE IF InRightZone(tapX) THEN SwipeDirectionRIGHT
    ELSE 0

\* direction of the paginate call of a single tap at tapX, 0 when it makes none
TapDirection(tapX) ==
    IF isZoomedRef THEN 0
    ELSE IF InLeftZone(tapX) THEN SwipeDirectionLEFT
    ELSE IF InRightZone(tapX) THEN SwipeDirectionRIGHT
    ELSE 0

\* mutant of handleTouchEnd: a double-tap returns without releasing the touch session
handleTouchEndKeepsSession(pt) ==
    /\ UNCHANGED <<pinchVars, panning, swiping, now>>
    /\ IF touchStartRef = Null
       THEN /\ ev' = Other
            /\ NoPaginate
            /\ UNCHANGED tapVars
       ELSE LET start == Val(touchStartRef)
                tapX == LocalX(start.x)
                tapY == LocalY(start.y)
            IN  IF ~isTap(start, Pt(pt))
                THEN /\ touchStartRef' = Null
                     /\ ev' = Other
                     /\ NoPaginate
                     /\ UNCHANGED <<lastTapRef, lastTapNav>>
                ELSE IF isDoubleTap(tapX, tapY)
                THEN /\ handleDoubleTapZoom(tapX, tapY)
                     /\ UNCHANGED touchStartRef
                     /\ lastTapRef' = Null
                     /\ lastTapNav' = 0
                     /\ ev' = Ev("doubleTap", ZoomedNow, 0)
                     /\ UNCHANGED <<pageVars, bounceVars>>
                ELSE /\ touchStartRef' = Null
                     /\ lastTapRef' = Some([x |-> tapX, y |-> tapY, time |-> now])
                     /\ lastTapNav' = TapDirection(tapX)
                     /\ ev' = Other
                     /\ IF TapDirection(tapX) # 0
                        THEN paginate(TapDirection(tapX))
                        ELSE NoPaginate

\* mutant of handleTouchEnd: a double-tap leaves the stored last tap in place
handleTouchEndKeepsLastTap(pt) ==
    /\ UNCHANGED <<pinchVars, panning, swiping, now>>
    /\ IF touchStartRef = Null
       THEN /\ ev' = Other
            /\ NoPaginate
            /\ UNCHANGED tapVars
       ELSE LET start == Val(touchStartRef)
                tapX == LocalX(start.x)
                tapY == LocalY(start.y)
            IN  /\ touchStartRef' = Null
                /\ IF ~isTap(start, Pt(pt))
                   THEN /\ ev' = Other
                        /\ NoPaginate
                        /\ UNCHANGED <<lastTapRef, lastTapNav>>
                   ELSE IF isDoubleTap(tapX, tapY)
                   THEN /\ handleDoubleTapZoom(tapX, tapY)
                        /\ UNCHANGED lastTapRef
                        /\ lastTapNav' = 0
                        /\ ev' = Ev("doubleTap", ZoomedNow, 0)
                        /\ UNCHANGED <<pageVars, bounceVars>>
                   ELSE /\ lastTapRef' = Some([x |-> tapX, y |-> tapY, time |-> now])
                        /\ lastTapNav' = TapDirection(tapX)
                        /\ ev' = Other
                        /\ IF TapDirection(tapX) # 0
                           THEN paginate(TapDirection(tapX))
                           ELSE NoPaginate

handleTouchEnd(pt) ==
    /\ UNCHANGED <<pinchVars, panning, swiping, now>>
    /\ IF touchStartRef = Null
       THEN /\ ev' = Other
            /\ NoPaginate
            /\ UNCHANGED tapVars
       ELSE LET start == Val(touchStartRef)
                tapX == LocalX(start.x)
                tapY == LocalY(start.y)
            IN  /\ touchStartRef' = Null
                /\ IF ~isTap(start, Pt(pt))
                   THEN /\ ev' = Other
                        /\ NoPaginate
                        /\ UNCHANGED <<lastTapRef, lastTapNav>>
                   ELSE IF isDoubleTap(tapX, tapY)
                   THEN /\ handleDoubleTapZoom(tapX, tapY)
                        /\ lastTapRef' = Null
                        /\ lastTapNav' = 0
                        /\ ev' = Ev("doubleTap", ZoomedNow, 0)
                        /\ UNCHANGED <<pageVars, bounceVars>>
                   ELSE /\ lastTapRef' = Some([x |-> tapX, y |-> tapY, time |-> now])
                        /\ lastTapNav' = TapDirection(tapX)
                        /\ ev' = Other
                        /\ IF TapDirection(tapX) # 0
                           THEN paginate(TapDirection(tapX))
                           ELSE NoPaginate

----------------------------------------------------------------------------
(* Pinch (usePinch), pan while zoomed (useDrag) and swipe (drag="x") *)

\* mutant of Clamp: the upper limit is not applied
ClampFromBelow(v, lo, hi) == Max(v, lo)

Clamp(v, lo, hi) == Min(Max(v, lo), hi)

PinchFirst(d, o) ==
    /\ ~pinching
    /\ pinching' = TRUE
    /\ pinchOriginRef' = Some([x |-> LocalX(Pt(o).x), y |-> LocalY(Pt(o).y)])
    /\ pinchMemo' = Some(Fx(d))
    /\ ev' = Other
    /\ UNCHANGED <<pageVars, bounceVars, zoomVars, tapVars, panning, swiping, now>>

\* mutant of PinchScale: the ratio is not clamped
PinchScaleUnclamped(d) ==
    LET initialDistance == IF pinchMemo = Null \/ Val(pinchMemo) = 0
                           THEN Fx(d) ELSE Val(pinchMemo)
    IN  Div(Fx(d), initialDistance)

PinchScale(d) ==
    LET initialDistance == IF pinchMemo = Null \/ Val(pinchMemo) = 0
                           THEN Fx(d) ELSE Val(pinchMemo)
        currentScale == Div(Fx(d), initialDistance)
    IN  Clamp(currentScale, Div(Fx(1), Fx(2)), Fx(3))

PinchOriginX == IF pinchOriginRef = Null THEN centerX ELSE Val(pinchOriginRef).x
PinchOriginY == IF pinchOriginRef = Null THEN centerY ELSE Val(pinchOriginRef).y

\* an update while the pinch is active
PinchUpdate(d) ==
    /\ pinching
    /\ zoomScale' = PinchScale(d)
    /\ zoomX' = AnchorOffset(centerX, PinchOriginX, PinchScale(d))
    /\ zoomY' = AnchorOffset(centerY, PinchOriginY, PinchScale(d))
    /\ zoomPage' = page
    /\ ev' = Other
    /\ UNCHANGED <<pageVars, bounceVars, isZoomed, isZoomedRef, panOffsetRef,
                   tapVars, pinchVars, panning, swiping, now>>

\* mutant of PinchEnd: the release resets the targets and leaves the zoom session on
PinchEndKeepsSession(d) ==
    /\ pinching
    /\ pinching' = FALSE
    /\ pinchMemo' = Null
    /\ zoomScale' = Fx(1)
    /\ zoomX' = 0
    /\ zoomY' = 0
    /\ pinchOriginRef' = Null
    /\ zoomPage' = page
    /\ ev' = Ev("pinchEnd", ZoomedNow, IF isZoomedRef THEN 1 ELSE 0)
    /\ UNCHANGED <<isZoomed, isZoomedRef, panOffsetRef>>
    /\ UNCHANGED <<pageVars, bounceVars, tapVars, panning, swiping, now>>

\* mutant of PinchEnd: the release ends the session and leaves the targets where they are
PinchEndKeepsTargets(d) ==
    /\ pinching
    /\ pinching' = FALSE
    /\ pinchMemo' = Null
    /\ pinchOriginRef' = Null
    /\ isZoomedRef' = FALSE
    /\ isZoomed' = FALSE
    /\ panOffsetRef' = Origin
    /\ zoomPage' = page
    /\ ev' = Ev("pinchEnd", ZoomedNow, IF isZoomedRef THEN 1 ELSE 0)
    /\ UNCHANGED <<zoomScale, zoomX, zoomY>>
    /\ UNCHANGED <<pageVars, bounceVars, tapVars, panning, swiping, now>>

\* the last update of a pinch (active = false)
PinchEnd(d) ==
    /\ pinching
    /\ pinching' = FALSE
    /\ pinchMemo' = Null
    /\ zoomScale' = Fx(1)
    /\ zoomX' = 0
    /\ zoomY' = 0
    /\ pinchOriginRef' = Null
    /\ isZoomedRef' = FALSE
    /\ isZoomed' = FALSE
    /\ panOffsetRef' = Origin
    /\ zoomPage' = page
    /\ ev' = Ev("pinchEnd", ZoomedNow, IF isZoomedRef THEN 1 ELSE 0)
    /\ UNCHANGED <<pageVars, bounceVars, tapVars, panning, swiping, now>>

maxPanX(scale) == Div(Mul(Fx(rect.width), scale - Fx(1)), Fx(2))
maxPanY(scale) == Div(Mul(Fx(rect.height), scale - Fx(1)), Fx(2))

\* mutant of ClampPan: the lower bound is not applied
ClampPanAbove(v, maxPan) == Min(maxPan, v)

\* Math.max(-maxPan, Math.min(maxPan, v))
ClampPan(v, maxPan) == Max(0 - maxPan, Min(maxPan, v))

PanHandler(m, first, last) ==
    IF ~isZoomedRef
    THEN UNCHANGED zoomVars
    ELSE LET anchor == IF first THEN [x |-> zoomX, y |-> zoomY] ELSE panOffsetRef
             clampedX == ClampPan(anchor.x + Pt(m).x, maxPanX(zoomScale))
             clampedY == ClampPan(anchor.y + Pt(m).y, maxPanY(zoomScale))
         IN /\ zoomX' = clampedX
            /\ zoomY' = clampedY
            /\ panOffsetRef' = IF last THEN [x |-> clampedX, y |-> clampedY] ELSE anchor
            /\ zoomPage' = page
            /\ UNCHANGED <<zoomScale, isZoomed, isZoomedRef>>

PanFirst(m) ==
    /\ ~panning
    /\ panning' = TRUE
    /\ PanHandler(m, TRUE, FALSE)
    /\ ev' = Other
    /\ UNCHANGED <<pageVars, bounceVars, tapVars, pinchVars, swiping, now>>

PanMove(m) ==
    /\ panning
    /\ PanHandler(m, FALSE, FALSE)
    /\ ev' = Other
    /\ UNCHANGED <<pageVars, bounceVars, tapVars, pinchVars, panning, swiping, now>>

PanLast(m) ==
    /\ panning
    /\ panning' = FALSE
    /\ PanHandler(m, FALSE, TRUE)
    /\ ev' = Other
    /\ UNCHANGED <<pageVars, bounceVars, tapVars, pinchVars, swiping, now>>

\* mutant of swipePower: the sign is taken from the offset
swipePowerByOffset(offset, velocity) == offset * Abs(velocity)

swipePower(offset, velocity) == Abs(offset) * velocity

\* drag={isZoomed ? false : "x"}: a drag of the slide starts only when not zoomed
SwipeStart ==
    /\ ~swiping
    /\ ~isZoomed
    /\ swiping' = TRUE
    /\ ev' = Other
    /\ UNCHANGED <<pageVars, bounceVars, zoomVars, tapVars, pinchVars, panning, now>>

\* mutant of SwipeDirectionOf: a swipe power equal to the threshold is accepted
SwipeDirectionOfInclusive(offset, velocity) ==
    IF isZoomed THEN 0
    ELSE IF swipePower(offset, velocity) <= 0 - swipeConfidenceThreshold
         THEN SwipeDirectionRIGHT
    ELSE IF swipePower(offset, velocity) >= swipeConfidenceThreshold
         THEN SwipeDirectionLEFT
    ELSE 0

\* direction of the paginate call of onDragEnd, 0 when it makes none
SwipeDirectionOf(offset, velocity) ==
    IF isZoomed THEN 0
    ELSE IF swipePower(offset, velocity) < 0 - swipeConfidenceThreshold
         THEN SwipeDirectionRIGHT
    ELSE IF swipePower(offset, velocity) > swipeConfidenceThreshold
         THEN SwipeDirectionLEFT
    ELSE 0

onDragEnd(offset, velocity) ==
    /\ swiping
    /\ swiping' = FALSE
    /\ IF SwipeDirectionOf(offset, velocity) # 0
       THEN paginate(SwipeDirectionOf(offset, velocity))
       ELSE NoPaginate
    /\ ev' = Ev("dragEnd", offset, velocity)
    /\ UNCHANGED <<tapVars, pinchVars, panning, now>>

----------------------------------------------------------------------------

Next ==
    \/ \E key \in Keys : handleKeyDown(key)
    \/ ClickPrev
    \/ ClickNext
    \/ BounceTimerFire
    \/ \E dt \in TickSteps : Tick(dt, MaxGestureTime)
    \/ \E pt \in GestureTouchPoints : handleTouchStart(pt)
    \/ \E pt \in GestureTouchPoints : handleTouchEnd(pt)
    \/ \E d \in PinchStartDistances, o \in PinchOrigins : PinchFirst(d, o)
    \/ \E d \in PinchDistances : PinchUpdate(d)
    \/ \E d \in PinchDistances : PinchEnd(d)
    \/ \E m \in PanMovements : PanFirst(m)
    \/ \E m \in PanMovements : PanMove(m)
    \/ \E m \in PanMovements : PanLast(m)
    \/ SwipeStart
    \/ \E r \in GestureSwipeReleases : onDragEnd(r[1], r[2])

Spec == Init /\ [][Next]_vars

\* navigation only: keyboard, buttons, taps, swipes and timers, no pinch and no pan
NextNav ==
    \/ \E key \in Keys : handleKeyDown(key)
    \/ ClickPrev
    \/ ClickNext
    \/ BounceTimerFire
    \/ \E dt \in TickSteps : Tick(dt, MaxTime)
    \/ \E pt \in TouchPoints : handleTouchStart(pt)
    \/ \E pt \in TouchPoints : handleTouchEnd(pt)
    \/ SwipeStart
    \/ \E r \in SwipeReleases : onDragEnd(r[1], r[2])

SpecNav == Init /\ [][NextNav]_vars

\* zoom gestures only: taps away from the edge zones, pinch and pan
NextZoom ==
    \/ \E dt \in TickSteps : Tick(dt, MaxGestureTime)
    \/ \E pt \in ZoomTouchPoints : handleTouchStart(pt)
    \/ \E pt \in ZoomTouchPoints : handleTouchEnd(pt)
    \/ \E d \in ZoomPinchStartDistances, o \in ZoomPinchOrigins : PinchFirst(d, o)
    \/ \E d \in ZoomPinchDistances : PinchUpdate(d)
    \/ \E d \in ZoomPinchDistances : PinchEnd(d)
    \/ \E m \in ZoomPanMovements : PanFirst(m)
    \/ \E m \in ZoomPanMovements : PanMove(m)
    \/ \E m \in ZoomPanMovements : PanLast(m)

SpecZoom == Init /\ [][NextZoom]_vars

\* taps only: touches at and around the borders of the edge zones, and timers
NextTap ==
    \/ \E dt \in TickSteps : Tick(dt, MaxTapTime)
    \/ \E pt \in TapPoints : handleTouchStart(pt)
    \/ \E pt \in TapPoints : handleTouchEnd(pt)
    \/ BounceTimerFire

SpecTap == Init /\ [][NextTap]_vars

\* bursts of key presses against the ends of the deck, 25ms apart or less
NextBurst ==
    \/ \E key \in Keys : handleKeyDownBurst(key)
    \/ BounceTimerFire
    \/ \E dt \in BurstTickSteps : Tick(dt, MaxBurstTime)

SpecBurst == Init /\ [][NextBurst]_vars

\* scale changes: double-taps at one point, pinches of all ratios, and page changes
NextScale ==
    \/ \E key \in Keys : handleKeyDown(key)
    \/ BounceTimerFire
    \/ \E dt \in TickSteps : Tick(dt, MaxGestureTime)
    \/ \E pt \in GestureTouchPoints : handleTouchStart(pt)
    \/ \E pt \in GestureTouchPoints : handleTouchEnd(pt)
    \/ \E d \in ZoomPinchStartDistances, o \in PinchOrigins : PinchFirst(d, o)
    \/ \E d \in ZoomPinchDistances : PinchUpdate(d)
    \/ \E d \in ZoomPinchDistances : PinchEnd(d)

SpecScale == Init /\ [][NextScale]_vars

\* a key press early enough for the hide timer of its page change to fall due within
\* MaxCounterTime
handleKeyDownCounter(key) ==
    /\ now + PAGE_COUNTER_MS <= MaxCounterTime
    /\ handleKeyDown(key)

\* page changes and the page counter: key presses and timers over three seconds
NextCounter ==
    \/ \E key \in Keys : handleKeyDownCounter(key)
    \/ BounceTimerFire
    \/ PageCounterTimerFire
    \/ \E dt \in CounterTickSteps : Tick(dt, MaxCounterTime)

\* time passes, and the event loop runs the callback of a timer that is due
SpecCounter ==
    /\ Init
    /\ [][NextCounter]_vars
    /\ WF_vars(\E dt \in CounterTickSteps : Tick(dt, MaxCounterTime))
    /\ WF_vars(PageCounterTimerFire)

----------------------------------------------------------------------------
(* Properties *)

IdentityZoom ==
    /\ zoomScale = Fx(1)
    /\ zoomX = 0
    /\ zoomY = 0
    /\ ~isZoomed
    /\ ~isZoomedRef
    /\ panOffsetRef = Origin

AllTouchPoints == TouchPoints \cup GestureTouchPoints \cup ZoomTouchPoints \cup TapPoints

\* the tap that a touch end at this moment would be taken for, in container coordinates
TapX == LocalX(Val(touchStartRef).x)
TapY == LocalY(Val(touchStartRef).y)

\* the step is a touch end classified as a plain tap (not promoted to a double-tap)
SingleTapStep ==
    /\ touchStartRef # Null
    /\ touchStartRef' = Null
    /\ ~isDoubleTap(TapX, TapY)
    /\ \E pt \in AllTouchPoints : isTap(Val(touchStartRef), Pt(pt)) /\ handleTouchEnd(pt)

\* the step is a touch end promoted to a double-tap
DoubleTapStep ==
    /\ touchStartRef # Null
    /\ touchStartRef' = Null
    /\ ev'.op = "doubleTap"

\* the step is the release of a drag of the slide with the given offset and velocity
DragEndStep(offset, velocity) ==
    /\ swiping
    /\ ~swiping'
    /\ ev' = Ev("dragEnd", offset, velocity)

\* the step is a handler calling paginate(d)
PaginateCall(d) ==
    \/ ev' = Ev("keyDown", d, ZoomedNow)
    \/ d = SwipeDirectionRIGHT /\ ClickNext
    \/ d = SwipeDirectionLEFT /\ ClickPrev
    \/ SingleTapStep /\ lastTapNav' = d
    \/ \E r \in SwipeReleases : DragEndStep(r[1], r[2]) /\ SwipeDirectionOf(r[1], r[2]) = d

\* the two outcomes of Paginate(d): the move is committed, or rejected with one pulse
Committed(d) ==
    /\ page' = page + d
    /\ direction' = d
    /\ edgeBounceX' = edgeBounceX
    /\ bounceTimers' = bounceTimers

Rejected ==
    /\ page' = page
    /\ direction' = direction
    /\ Len(bounceTimers') = Len(bounceTimers) + 1
    /\ edgeBounceX' # 0

PaginateOutcome(d) ==
    IF 0 <= page + d /\ page + d < IMAGES_length THEN Committed(d) ELSE Rejected

\* C1: the viewer starts at page 0 with identity zoom, and in every reachable state
\* 0 <= page < N, N the number of slides
C1_PageIndexInvariant ==
    /\ page = 0 /\ IdentityZoom
    /\ [](0 <= page /\ page < IMAGES_length)

\* the last page has been reached and a move beyond it attempted
C1_Witness ==
    /\ page = IMAGES_length - 1
    /\ edgeBounceX = 0 - Fx(NUDGE_PX)

\* C2: every call Paginate(d), d in {-1, +1}, either commits page + d with
\* navigationDirection d and no bounce (in range), or leaves page and
\* navigationDirection alone and triggers exactly one bounce pulse (out of range)
C2_PaginateOutcomes ==
    [][\A d \in {SwipeDirectionLEFT, SwipeDirectionRIGHT} :
          PaginateCall(d) => PaginateOutcome(d)]_vars

\* a committed Paginate(-1) back to page 0, then a rejected one
C2_Witness ==
    /\ page = 0
    /\ direction = SwipeDirectionLEFT
    /\ edgeBounceX # 0
    /\ Len(bounceTimers) = 1

\* C3: every step that changes the page leaves the zoom state at identity: scale 1,
\* offsets 0, isZoomed false, panAnchor (0,0)
C3_PageChangeResetsZoom ==
    [][page' # page => IdentityZoom']_vars

\* an arrow key pressed while zoomed or panned has changed the page
C3_Witness ==
    /\ ev.op = "keyDown"
    /\ ev.b = 1
    /\ IdentityZoom

\* |offsetX| * |velocityX| > 10000
SwipeAccepted(offset, velocity) == Abs(offset) * Abs(velocity) > swipeConfidenceThreshold

Sign(a) == IF a < 0 THEN 0 - 1 ELSE IF a > 0 THEN 1 ELSE 0

\* the release of an accepted swipe: no navigation while zoomed, else Paginate(d)
SwipeNavigates(d) == IF isZoomed THEN UNCHANGED <<pageVars, bounceVars>> ELSE PaginateOutcome(d)

\* C4 as stated: an accepted swipe navigates opposite to the sign of its offset, and
\* on the 12 slides, at page 0, offset -150 with velocity 80 leads to page 1 with
\* navigationDirection +1
C4_SwipeOppositeToOffset ==
    [][\A r \in SwipeReleases :
          (DragEndStep(r[1], r[2]) /\ SwipeAccepted(r[1], r[2]))
             => /\ SwipeNavigates(0 - Sign(r[1]))
                /\ (page = 0 /\ ~isZoomed /\ r = <<0 - 150, 80>>)
                      => (page' = 1 /\ direction' = 1)]_vars

\* C4: an accepted swipe navigates opposite to the sign of its release velocity, and
\* on the 12 slides, at page 0, offset -150 with velocity -80 leads to page 1 with
\* navigationDirection +1
C4_SwipeOppositeToVelocity ==
    [][\A r \in SwipeReleases :
          (DragEndStep(r[1], r[2]) /\ SwipeAccepted(r[1], r[2]))
             => /\ SwipeNavigates(0 - Sign(r[2]))
                /\ (page = 0 /\ ~isZoomed /\ r = <<0 - 150, 0 - 80>>)
                      => (page' = 1 /\ direction' = 1)]_vars

\* the drag released with offset -150 and velocity -80 at page 0 has led to page 1
C4_Witness ==
    /\ ev = Ev("dragEnd", 0 - 150, 0 - 80)
    /\ page = 1
    /\ direction = 1
    /\ IMAGES_length = 12

\* the touch end completes the second of two taps at one point, 100ms apart
SecondTapOfPair ==
    /\ touchStartRef # Null
    /\ touchStartRef' = Null
    /\ lastTapRef # Null
    /\ Val(lastTapRef).x = TapX
    /\ Val(lastTapRef).y = TapY
    /\ now - Val(lastTapRef).time = 100
    /\ \E pt \in AllTouchPoints : isTap(Val(touchStartRef), Pt(pt)) /\ handleTouchEnd(pt)

\* C5 as stated: two taps at one point 100ms apart toggle the zoom once, and neither
\* of them navigates or bounces
C5_DoubleTapWithoutSingleTapEffect ==
    [][SecondTapOfPair =>
          /\ lastTapNav = 0
          /\ isZoomedRef' # isZoomedRef
          /\ UNCHANGED <<pageVars, bounceVars>>]_vars

\* the step is an update of the pan gesture
PanStep == \E m \in PanMovements \cup ZoomPanMovements : PanFirst(m) \/ PanMove(m) \/ PanLast(m)

\* the gestures processing the pointer stream: the drag of the slide, the pinch, and
\* the pan, whose handler acts only in a zoom session
LiveGestures ==
    (IF swiping THEN {"drag"} ELSE {})
        \cup (IF pinching THEN {"pinch"} ELSE {})
        \cup (IF panning /\ isZoomedRef THEN {"pan"} ELSE {})

\* C6 as stated: at most one of swipe drag, pinch and pan is live; starting a pinch
\* cancels the drags in flight; while a pinch is live no pan update and no drag-end
\* decision takes effect
C6_GestureOwnershipExclusive ==
    [][/\ Cardinality(LiveGestures') <= 1
       /\ (~pinching /\ pinching') => (~swiping' /\ ~panning')
       /\ (pinching /\ PanStep) => UNCHANGED <<zoomX, zoomY, panOffsetRef>>
       /\ (pinching /\ ev'.op = "dragEnd") => UNCHANGED <<pageVars, bounceVars>>]_vars

\* 2 * |offsetX| <= width * (scale - 1) and 2 * |offsetY| <= height * (scale - 1)
WithinPanBounds ==
    /\ 2 * Abs(zoomX) <= Mul(Fx(rect.width), zoomScale - Fx(1))
    /\ 2 * Abs(zoomY) <= Mul(Fx(rect.height), zoomScale - Fx(1))

\* C7 as stated: in every reachable state the zoom offset is within the pan bounds of
\* the current scale
C7_PanBoundAlways == WithinPanBounds

\* C7: in every reachable state whose scale target is at least 1 the zoom offset is
\* within the pan bounds of the current scale
C7_PanBoundAtScaleOneOrMore == zoomScale >= Fx(1) => WithinPanBounds

\* zoomed by double-tap and panned into the corner of the pan range
C7_Witness ==
    /\ isZoomedRef
    /\ zoomScale = Fx(DOUBLE_TAP_SCALE)
    /\ zoomX = 0 - Fx(150)
    /\ zoomY = 0 - Fx(250)

\* C8: a double-tap in a zoom session (entered by an earlier double-tap) restores the
\* zoom state to identity exactly: scale 1, offsets 0, isZoomed false, panAnchor (0,0)
C8_ZoomRoundTrip ==
    [][(DoubleTapStep /\ isZoomedRef) => IdentityZoom']_vars

\* the double-tap that ended a zoom session
C8_Witness ==
    /\ ev = Ev("doubleTap", 1, 0)
    /\ IdentityZoom

\* the step is a handler calling paginate(-1) at the first page
BackwardAtFirstPage == page = 0 /\ PaginateCall(SwipeDirectionLEFT)

\* C9 as stated: Paginate(-1) at page 0 leaves the page at 0 and records one bounce
\* pulse of -15px
C9_BackwardBounceMinus15 ==
    [][BackwardAtFirstPage =>
          /\ page' = 0
          /\ edgeBounceX' = 0 - Fx(15)
          /\ Len(bounceTimers') = Len(bounceTimers) + 1]_vars

\* C9: Paginate(-1) at page 0 leaves the page at 0 and records one bounce pulse of
\* +15px, with its reset scheduled 50ms later; the reset sets the channel back to 0,
\* and a reset is pending whenever the channel is not at 0
C9_BackwardBouncePlus15 ==
    [][/\ BackwardAtFirstPage =>
             /\ page' = 0
             /\ direction' = direction
             /\ edgeBounceX' = Fx(15)
             /\ bounceTimers' = Append(bounceTimers, now + 50)
       /\ BounceTimerFire => edgeBounceX' = 0
       /\ edgeBounceX' # 0 => bounceTimers' # <<>>]_vars

\* right after mount, Paginate(-1) was rejected and its reset is pending
C9_Witness ==
    /\ page = 0
    /\ direction = 0
    /\ edgeBounceX = Fx(15)
    /\ bounceTimers = <<50>>

\* the scale clamp(d / d0, 0.5, 3.0), without the division
IsClampedRatio(scale, d, d0) ==
    \/ 2 * d <= d0 /\ 2 * scale = Fx(1)
    \/ d >= 3 * d0 /\ scale = Fx(3)
    \/ 2 * d > d0 /\ d < 3 * d0 /\ scale * d0 = Fx(d)

\* offset = (center - origin) * (scale - 1), center the middle of the viewport extent
IsAnchoredOffset(offset, extent, origin, scale) ==
    2 * Fx(offset) = (Fx(extent) - 2 * origin) * (scale - Fx(1))

\* C10: an update of a live pinch with initial distance d0, captured origin (ox, oy)
\* and distance d sets scale = clamp(d / d0, 0.5, 3.0) and the offsets
\* (center - origin) * (scale - 1), and leaves page and isZoomed alone; d0 = 100,
\* d = 150, origin (50,50) in the 300x500 viewport give scale 1.5, offsets 50 and 100
C10_PinchUpdate ==
    [][\A d \in ZoomPinchDistances :
          (PinchUpdate(d) /\ pinchMemo # Null /\ pinchOriginRef # Null) =>
             /\ IsClampedRatio(zoomScale', Fx(d), Val(pinchMemo))
             /\ IsAnchoredOffset(zoomX', rect.width, Val(pinchOriginRef).x, zoomScale')
             /\ IsAnchoredOffset(zoomY', rect.height, Val(pinchOriginRef).y, zoomScale')
             /\ UNCHANGED <<page, direction, isZoomed, isZoomedRef>>
             /\ (/\ Val(pinchMemo) = Fx(100)
                 /\ d = 150
                 /\ Val(pinchOriginRef) = [x |-> Fx(50), y |-> Fx(50)]
                 /\ rect.width = 300 /\ rect.height = 500)
                   => (/\ 2 * zoomScale' = Fx(3)
                       /\ zoomX' = Fx(50)
                       /\ zoomY' = Fx(100))]_vars

\* a live pinch started at distance 100 around (50,50) and updated to distance 150
C10_Witness ==
    /\ pinching
    /\ pinchMemo = Some(Fx(100))
    /\ pinchOriginRef = Some([x |-> Fx(50), y |-> Fx(50)])
    /\ 2 * zoomScale = Fx(3)
    /\ zoomX = Fx(50)
    /\ zoomY = Fx(100)

\* C11: the step that ends a pinch, whatever the state the pinch started or ran in,
\* leaves scale 1, offsets 0, isZoomed false, panAnchor (0,0) and no captured origin
C11_PinchReleaseEndsUnzoomed ==
    [][(pinching /\ ~pinching') => (IdentityZoom' /\ pinchOriginRef' = Null)]_vars

\* a pinch made in a zoom session entered by double-tap has been released
C11_Witness ==
    /\ ev = Ev("pinchEnd", 1, 1)
    /\ ~pinching
    /\ IdentityZoom
    /\ pinchOriginRef = Null

\* the step is a touch end at pt that makes a plain tap: down-to-up in under 200ms with
\* under 10px of movement on each axis, and not promoted to a double-tap
PlainTapAt(pt) ==
    /\ touchStartRef # Null
    /\ now - Val(touchStartRef).time < 200
    /\ Abs(Pt(pt).x - Val(touchStartRef).x) < Fx(10)
    /\ Abs(Pt(pt).y - Val(touchStartRef).y) < Fx(10)
    /\ handleTouchEnd(pt)
    /\ ev'.op # "doubleTap"

\* C12: while not zoomed, a plain tap at x / width < 0.20 invokes Paginate(-1), at
\* x / width > 0.80 invokes Paginate(+1), and anywhere between changes neither page,
\* navigationDirection, zoom state nor the edge-bounce channel
C12_TapZoneRouting ==
    [][\A pt \in AllTouchPoints :
          (PlainTapAt(pt) /\ ~isZoomed) =>
             IF 5 * TapX < Fx(rect.width)
             THEN PaginateOutcome(0 - 1) /\ (page' # page \/ UNCHANGED zoomVars)
             ELSE IF 5 * TapX > 4 * Fx(rect.width)
             THEN PaginateOutcome(1) /\ (page' # page \/ UNCHANGED zoomVars)
             ELSE UNCHANGED <<pageVars, zoomVars, bounceVars>>]_vars

\* right after mount, a plain tap on the border of the left zone (x / width = 0.20) was
\* stored and has done nothing
C12_Witness ==
    /\ lastTapRef = Some([x |-> Fx(60), y |-> Fx(50), time |-> 0])
    /\ now = 0
    /\ page = 0
    /\ edgeBounceX = 0
    /\ bounceTimers = <<>>
    /\ IdentityZoom

\* the indices among p - 1, p + 1, p + 2 that lie in [0, N)
PreloadWindow(p) == {i \in {p - 1, p + 1, p + 2} : 0 <= i /\ i < IMAGES_length}

\* C13: at mount and after every committed page change the indices requested for
\* preloading are exactly those of {page - 1, page + 1, page + 2} that lie in [0, N),
\* and a step that requests a preload is a committed page change
C13_PreloadWindow ==
    /\ preloadRequests = PreloadWindow(page)
    /\ [][/\ preloadRequests' = PreloadWindow(page')
          /\ preloadRequests' # preloadRequests =>
                (page' # page /\ 0 <= page' /\ page' < IMAGES_length)]_vars

\* the page before the last one has been reached: two ahead would be out of range
C13_Witness ==
    /\ page = IMAGES_length - 2
    /\ preloadRequests = {IMAGES_length - 3, IMAGES_length - 1}

TouchEndStep == touchStartRef # Null /\ touchStartRef' = Null

\* C15: while isZoomed is true no touch end (a tap in any zone included) and no swipe
\* release changes the page or triggers an edge bounce, and a page change in that state
\* comes from the keyboard or the prev/next buttons
C15_ZoomGatesGestureNavigation ==
    [][isZoomed =>
          /\ (TouchEndStep \/ ev'.op = "dragEnd") => UNCHANGED <<pageVars, bounceVars>>
          /\ page' # page => (ev'.op = "keyDown" \/ ClickPrev \/ ClickNext)]_vars

\* in a zoom session, a plain tap in the left edge zone was stored without navigating
\* and then a swipe above the threshold was released
C15_Witness ==
    /\ isZoomed
    /\ lastTapRef # Null
    /\ 5 * Val(lastTapRef).x < Fx(rect.width)
    /\ lastTapNav = 0
    /\ ev.op = "dragEnd"
    /\ SwipeAccepted(ev.a, ev.b)

\* C16: a drag release with |offsetX| * |velocityX| <= 10000 leaves page,
\* navigationDirection and the edge-bounce channel unchanged, and (outside a zoom
\* session) a release above the threshold whose target page is out of range is rejected
\* with one edge-bounce pulse and leaves the page unchanged
C16_SwipeAcceptanceThreshold ==
    [][\A r \in SwipeReleases :
          DragEndStep(r[1], r[2]) =>
             /\ Abs(r[1]) * Abs(r[2]) <= 10000 => UNCHANGED <<pageVars, bounceVars>>
             /\ (/\ Abs(r[1]) * Abs(r[2]) > 10000
                 /\ ~isZoomed
                 /\ ~(0 <= page - Sign(r[2]) /\ page - Sign(r[2]) < IMAGES_length))
                   => Rejected]_vars

\* right after mount, a drag released with a swipe score of exactly 10000 did nothing
C16_Witness ==
    /\ ev = Ev("dragEnd", 100, 100)
    /\ now = 0
    /\ page = 0
    /\ direction = 0
    /\ edgeBounceX = 0
    /\ bounceTimers = <<>>

\* C17: a rejected Paginate(d) sets the edge-bounce target to 15px opposite to d (-15
\* for d = +1, +15 for d = -1) and schedules a reset 50ms later; a reset fires no
\* earlier than that and sets the target to 0; once no reset is pending, after any
\* number of rejections (several within 50ms of one another included), the target is 0
C17_EdgeBouncePulse ==
    [][/\ \A d \in {0 - 1, 1} :
             (/\ ev' = Ev("keyDown", d, ZoomedNow)
              /\ ~(0 <= page + d /\ page + d < IMAGES_length))
                => /\ edgeBounceX' = 0 - d * Fx(15)
                   /\ bounceTimers' = Append(bounceTimers, now + 50)
                   /\ page' = page
       /\ Len(bounceTimers') < Len(bounceTimers) =>
             /\ Head(bounceTimers) <= now
             /\ bounceTimers' = Tail(bounceTimers)
             /\ edgeBounceX' = 0
       /\ bounceTimers' = <<>> => edgeBounceX' = 0]_vars

\* two navigations were rejected at the first page 25ms apart; the reset of the first has
\* fired and set the target to 0, the reset of the second is pending
C17_Witness ==
    /\ page = 0
    /\ now = 50
    /\ bounceTimers = <<75>>
    /\ edgeBounceX = 0

\* the step is a touch end at pt that makes a tap, plain or the second of a double-tap
TapAt(pt) ==
    /\ touchStartRef # Null
    /\ now - Val(touchStartRef).time < 200
    /\ Abs(Pt(pt).x - Val(touchStartRef).x) < Fx(10)
    /\ Abs(Pt(pt).y - Val(touchStartRef).y) < Fx(10)
    /\ handleTouchEnd(pt)

\* C18: a tap promoted to a double-tap clears the stored last tap; a tap made while no
\* last tap is stored (the first, or the one after a double-tap) is a plain tap, which
\* does not toggle the zoom and is stored; a tap at the point of the stored tap, at most
\* 200ms after it, is a double-tap, which toggles the zoom. Taps at one point 100ms
\* apart therefore alternate plain, double, plain, double
C18_NoTripleTapChaining ==
    [][\A pt \in AllTouchPoints :
          TapAt(pt) =>
             IF lastTapRef = Null
             THEN /\ isZoomedRef' = isZoomedRef
                  /\ lastTapRef' = Some([x |-> TapX, y |-> TapY, time |-> now])
             ELSE (/\ Val(lastTapRef).x = TapX
                   /\ Val(lastTapRef).y = TapY
                   /\ now - Val(lastTapRef).time <= 200)
                     => /\ isZoomedRef' # isZoomedRef
                        /\ lastTapRef' = Null]_vars

\* the fourth of four taps, 300ms after mount, was a double-tap that ended the zoom
\* session entered by the second
C18_Witness ==
    /\ now = 300
    /\ ev = Ev("doubleTap", 1, 0)
    /\ lastTapRef = Null
    /\ touchStartRef = Null
    /\ ~isZoomedRef

\* C19: whenever the zoom target differs from identity (scale # 1 or an offset # 0),
\* isZoomed is true or a pinch is live; and isZoomed becomes true only in a touch end
\* promoted to a double-tap, never in a pinch or a pan step
C19_ZoomSessionInvariant ==
    [][/\ (zoomScale' # Fx(1) \/ zoomX' # 0 \/ zoomY' # 0) => (isZoomed' \/ pinching')
       /\ (~isZoomed /\ isZoomed') => (TouchEndStep /\ ev'.op = "doubleTap")]_vars

\* a pinch-in holds the scale target at 0.5 while a pan gesture is live, and isZoomed
\* is false
C19_Witness ==
    /\ pinching
    /\ panning
    /\ ~isZoomed
    /\ 2 * zoomScale = Fx(1)

\* C20: in every reachable state the zoom scale target is within [0.5, 3.0]
C20_ScaleBound ==
    /\ Fx(1) <= 2 * zoomScale
    /\ zoomScale <= Fx(3)

\* after a page change, a pinch from distance 100 to 400 (ratio 4) holds the scale at 3
C20_Witness ==
    /\ page = 1
    /\ pinching
    /\ pinchMemo = Some(Fx(100))
    /\ zoomScale = Fx(3)

\* C21: a touch end that finds no touch session (none was started, or an earlier touch
\* end consumed it) leaves page, direction, the zoom state, the stored last tap and the
\* edge-bounce channel as they were; and every touch end leaves no touch session
\* behind, so that a second touch end without a new touch start is such a no-op
C21_MissingAnchorNoOp ==
    [][\A pt \in AllTouchPoints :
          handleTouchEnd(pt) =>
             /\ touchStartRef' = Null
             /\ touchStartRef = Null =>
                   UNCHANGED <<page, direction, zoomScale, zoomX, zoomY, isZoomed,
                               isZoomedRef, panOffsetRef, lastTapRef, edgeBounceX,
                               bounceTimers>>]_vars

\* a double-tap has entered a zoom session and released its touch session; 100ms
\* later no touch start has followed, so a touch end now finds no session
C21_Witness ==
    /\ touchStartRef = Null
    /\ lastTapRef = Null
    /\ isZoomedRef
    /\ ev = Other
    /\ now = 200

\* C22: every page change leaves the page counter visible with exactly one hide timer
\* pending, the one it started, due 1500ms later (the timer of an earlier page is
\* cancelled); the counter is hidden only while the page stays, and not before 1500ms
\* have passed since the last run of the page-counter effect (the last page change, or
\* the mount); a hidden counter becomes visible only in a page change, so a rejected
\* navigation does not show it; and a visible counter is eventually hidden unless the
\* page changes
C22_PageCounterAutoHide ==
    /\ [][/\ page' # page =>
                /\ showPageCounter'
                /\ pageCounterTimers' = {now + PAGE_COUNTER_MS}
                /\ counterShownAt' = now
          /\ page' = page => counterShownAt' = counterShownAt
          /\ (showPageCounter /\ ~showPageCounter') =>
                /\ page' = page
                /\ now >= counterShownAt + PAGE_COUNTER_MS
          /\ (~showPageCounter /\ showPageCounter') => page' # page]_vars
    /\ \A p \in 0 .. IMAGES_length - 1 :
          (showPageCounter /\ page = p) ~> (~showPageCounter \/ page # p)

\* the page changed 500ms after mount, which cancelled the timer due at 1500ms; the
\* counter stayed visible until the timer of the page change hid it at 2000ms
C22_Witness ==
    /\ page = 1
    /\ counterShownAt = 500
    /\ now = 2000
    /\ ~showPageCounter
    /\ pageCounterTimers = {}

====
